---- MODULE Spec2Model ----
(***************************************************************************)
(* Model of aocr/util/data_gen.py (DataGen, the streaming generator) and   *)
(* aocr/util/data_augmentation.py (the augmentation transforms).           *)
(*                                                                         *)
(* An image is a record [w, h, ops, fmt]: its size, the transforms that    *)
(* produced it from the stored image (in order) and its container format.  *)
(* Pixel content is represented by ops: two images are the same bytes iff  *)
(* the records are equal.  Real factors and random.random() values are     *)
(* counted in hundredths.                                                  *)
(***************************************************************************)
EXTENDS Integers, Sequences, FiniteSets, TLC

VARIABLES
    augment_data_prob,  \* DataGen.augment_data_prob, in hundredths
    max_width,          \* DataGen.max_width
    bucket_specs,       \* DataGen.bucket_specs: sequence of <<width, label length>>
    bucket_data,        \* DataGen.bucket_data (the accumulator)
    remaining,          \* records the dataset has not delivered yet
    chunk,              \* records of the fetched dataset batch not iterated yet
    count,              \* records read so far
    batch_size,         \* argument of gen
    pc,                 \* position of the generator
    rec,                \* the record (img, lex, comment) of the current iteration
    img,                \* local img of gen: the image handed to append
    word,               \* local word of gen
    bucket_size,        \* local bucket_size of gen
    batch,              \* the batch being yielded
    yielded,            \* comments of the batches yielded so far, in order
    err,                \* the exception raised out of gen
    aug,                \* a call of full_augmentation: its position and images
    fn                  \* a call of one transform: its arguments and its result

vars == <<augment_data_prob, max_width, bucket_specs, bucket_data, remaining,
          chunk, count, batch_size, pc, rec, img, word, bucket_size, batch,
          yielded, err, aug, fn>>

genVars == <<augment_data_prob, max_width, bucket_specs, bucket_data, remaining,
             chunk, count, batch_size, pc, rec, img, word, bucket_size, batch,
             yielded, err>>

(***************************************************************************)
(* Bounds of the model.                                                    *)
(***************************************************************************)
MaxRecords == 3      \* records in the dataset
MaxBatch == 2        \* largest batch_size passed to gen
MaxLexLen == 4       \* longest label, in bytes
MaxPad == 1          \* largest end of a caller-supplied padding range
MaxImgW == 12        \* widest image handed to a single transform
MaxImgH == 5         \* tallest image handed to a single transform

Min(S) == CHOOSE x \in S : \A y \in S : x <= y
Max(S) == CHOOSE x \in S : \A y \in S : x >= y

(***************************************************************************)
(* Arithmetic of the transforms.                                           *)
(***************************************************************************)
\* int(x) of a non-negative quotient n/d: truncation.
Trunc(n, d) == n \div d

\* np.round(n/d): round half to even.
NpRound(n, d) ==
    LET q == n \div d
        r == n % d
    IN  IF 2 * r < d THEN q
        ELSE IF 2 * r > d THEN q + 1
        ELSE IF q % 2 = 0 THEN q ELSE q + 1

Image(w, h, ops, fmt) == [w |-> w, h |-> h, ops |-> ops, fmt |-> fmt]
NoImage == Image(0, 0, <<>>, "None")

Applied(im, w, h, stage) == Image(w, h, Append(im.ops, stage), im.fmt)

(***************************************************************************)
(* data_augmentation.py: the transforms.  Each takes the image and the     *)
(* values it draws, and returns the new image.                             *)
(***************************************************************************)
\* Default ranges of the transforms (their keyword defaults).
ResizeFactorRange == <<90, 110>>
EnhanceFactorRange == <<75, 125>>
PadRange == <<0, 10>>
CropLowRange == <<0, 5>>
CropHighRange == <<95, 100>>
NumLinesRange == <<1, 3>>
AngleRange == <<-1, 1>>

\* random.randint(a, b) and np.random.uniform(a, b) in hundredths: any value of the range.
RandInt(range) == range[1]..range[2]

\* The values of a range the pipeline model draws: both ends and the middle.
Grid(range) == {range[1], (range[1] + range[2]) \div 2, range[2]}

\* random.random(), in hundredths: values of [0, 1) on both sides of every threshold
\* the code compares it with.
RandomGrid == {0, 50, 51, 70, 71, 90, 91, 95, 96, 99}

\* img.resize((width, height))
random_resize_round(im, mw, factor) ==
    LET width == NpRound(im.w * factor, 100)
        height == NpRound(im.h * factor, 100)
    IN  IF width > mw
        THEN Applied(im, mw, Trunc(mw * height, width), "Resize")
        ELSE Applied(im, width, height, "Resize")

random_resize(im, mw, factor) ==
    LET width == Trunc(im.w * factor, 100)
        height == Trunc(im.h * factor, 100)
    IN  IF width > mw
        THEN Applied(im, mw, Trunc(mw * height, width), "Resize")
        ELSE Applied(im, width, height, "Resize")

modify_sharpness(im, factor) == Applied(im, im.w, im.h, "Sharpness")

modify_contrast(im, factor) == Applied(im, im.w, im.h, "Contrast")

modify_brightness(im, factor) == Applied(im, im.w, im.h, "Brightness")

\* ImageOps.expand(img, border, fill): a 4-tuple border is (left, top, right, bottom).
ImageOps_expand(im, border) ==
    LET left == border[1]
        top == border[2]
        right == border[3]
        bottom == border[4]
    IN  Applied(im, left + im.w + right, top + im.h + bottom, "Padding")

add_random_padding(im, delta_top, delta_right, delta_bottom, delta_left) ==
    LET padding == <<delta_top, delta_right, delta_bottom, delta_left>>
    IN  ImageOps_expand(im, padding)

\* img.crop(box=(left, top, right, bottom))
crop_image(im, top_pct, right_pct, bottom_pct, left_pct) ==
    LET top == NpRound(top_pct * im.h, 100)
        left == NpRound(left_pct * im.w, 100)
        right == NpRound(right_pct * im.w, 100)
        bottom == NpRound(bottom_pct * im.h, 100)
    IN  Applied(im, right - left, bottom - top, "Crop")

\* add_random_lines draws a line only through random.randint(1, W) and
\* random.randint(1, H): the ranges must not be empty.
add_random_lines_draws(im, probability) ==
    probability > 50 => (im.w >= 1 /\ im.h >= 1)

\* add_random_lines returns an image of the same size, with or without lines.
add_random_lines(im, num_lines, probability) == Applied(im, im.w, im.h, "RandomLines")

random_rotation(im, angle) == Applied(im, im.w, im.h, "Rotation")

(***************************************************************************)
(* full_augmentation: the eight transforms, each on the result of the one  *)
(* before.  A draw d holds the values one call of each transform draws.    *)
(***************************************************************************)
Draw(factor, pad, crop, num_lines, probability, angle) ==
    [factor |-> factor, pad |-> pad, crop |-> crop, num_lines |-> num_lines,
     probability |-> probability, angle |-> angle]

Quad(S) == S \X S \X S \X S

\* The values the transform of a stage draws, the others left at 0.
StageDraws(stage) ==
    CASE stage = "Resize" ->
           {Draw(f, <<0, 0, 0, 0>>, <<0, 0, 0, 0>>, 0, 0, 0) : f \in Grid(ResizeFactorRange)}
      [] stage \in {"Sharpness", "Contrast", "Brightness"} ->
           {Draw(f, <<0, 0, 0, 0>>, <<0, 0, 0, 0>>, 0, 0, 0) : f \in Grid(EnhanceFactorRange)}
      [] stage = "Padding" ->
           {Draw(0, q, <<0, 0, 0, 0>>, 0, 0, 0) : q \in Quad(Grid(PadRange))}
      [] stage = "Crop" ->
           {Draw(0, <<0, 0, 0, 0>>, <<t, r, b, l>>, 0, 0, 0) :
               t \in Grid(CropLowRange), r \in Grid(CropHighRange),
               b \in Grid(CropHighRange), l \in Grid(CropLowRange)}
      [] stage = "RandomLines" ->
           {Draw(0, <<0, 0, 0, 0>>, <<0, 0, 0, 0>>, n, p, 0) :
               n \in RandInt(NumLinesRange), p \in RandomGrid}
      [] stage = "Rotation" ->
           {Draw(0, <<0, 0, 0, 0>>, <<0, 0, 0, 0>>, 0, 0, a) : a \in Grid(AngleRange)}

\* One statement img = <transform>(img) of full_augmentation.
ApplyStage(stage, im, mw, d) ==
    CASE stage = "Resize" -> random_resize(im, mw, d.factor)
      [] stage = "Sharpness" -> modify_sharpness(im, d.factor)
      [] stage = "Contrast" -> modify_contrast(im, d.factor)
      [] stage = "Brightness" -> modify_brightness(im, d.factor)
      [] stage = "Padding" -> add_random_padding(im, d.pad[1], d.pad[2], d.pad[3], d.pad[4])
      [] stage = "Crop" -> crop_image(im, d.crop[1], d.crop[2], d.crop[3], d.crop[4])
      [] stage = "RandomLines" -> add_random_lines(im, d.num_lines, d.probability)
      [] stage = "Rotation" -> random_rotation(im, d.angle)

AugStagesSwapped ==
    <<"Resize", "Sharpness", "Contrast", "Brightness",
      "Crop", "Padding", "RandomLines", "Rotation">>

\* The statements of full_augmentation, in program order.
AugStages ==
    <<"Resize", "Sharpness", "Contrast", "Brightness",
      "Padding", "Crop", "RandomLines", "Rotation">>

RECURSIVE RunStages(_, _, _, _)
RunStages(stages, im, mw, d) ==
    IF stages = <<>> THEN im
    ELSE RunStages(Tail(stages), ApplyStage(Head(stages), im, mw, d), mw, d)

full_augmentation(im, mw, d) == RunStages(AugStages, im, mw, d)

(***************************************************************************)
(* data_gen.py: DataGen.                                                   *)
(***************************************************************************)
GO_ID == 1
EOS_ID == 2
IMAGE_HEIGHT == 32

CHARMAP ==
    <<"", "", "", "0", "1", "2", "3", "4", "5", "6", "7", "8", "9",
      "A", "B", "C", "D", "E", "F", "G", "H", "I", "J", "K", "L", "M",
      "N", "O", "P", "Q", "R", "S", "T", "U", "V", "W", "X", "Y", "Z">>

\* The characters of the one-byte UTF-8 codes 37 ("%") to 90 ("Z").
Utf8 ==
    <<"%", "&", "'", "(", ")", "*", "+", ",", "-", ".", "/",
      "0", "1", "2", "3", "4", "5", "6", "7", "8", "9",
      ":", ";", "<", "=", ">", "?", "@",
      "A", "B", "C", "D", "E", "F", "G", "H", "I", "J", "K", "L", "M",
      "N", "O", "P", "Q", "R", "S", "T", "U", "V", "W", "X", "Y", "Z">>

\* lex.decode('UTF-8') of a label of one-byte codes
decode(lex) == [i \in 1..Len(lex) |-> Utf8[lex[i] - 36]]

InList(list, x) == \E i \in 1..Len(list) : list[i] = x

\* list.index(x): the position, counted from 0, of the first x
index(list, x) == Min({i \in 1..Len(list) : list[i] = x}) - 1

Raised(exc) == [ok |-> FALSE, exc |-> exc, word |-> <<>>]
Returned(w) == [ok |-> TRUE, exc |-> "", word |-> w]

convert_lex_unchecked(lex, specs) ==
    LET chars == decode(lex)
    IN  IF specs = <<>> THEN Raised("IndexError")
        ELSE IF ~(Len(chars) < specs[Len(specs)][2]) THEN Raised("AssertionError")
        ELSE Returned(<<GO_ID>>
                      \o [i \in 1..Len(chars) |->
                            IF InList(CHARMAP, chars[i]) THEN index(CHARMAP, chars[i]) ELSE 0]
                      \o <<EOS_ID>>)

\* DataGen.convert_lex: the word, or the exception it raises.
convert_lex(lex, specs) ==
    LET chars == decode(lex)
    IN  IF specs = <<>> THEN Raised("IndexError")
        ELSE IF ~(Len(chars) < specs[Len(specs)][2]) THEN Raised("AssertionError")
        ELSE IF \E i \in 1..Len(chars) : ~InList(CHARMAP, chars[i]) THEN Raised("ValueError")
        ELSE Returned(<<GO_ID>> \o [i \in 1..Len(chars) |-> index(CHARMAP, chars[i])] \o <<EOS_ID>>)

should_augment_le(r, prob) == r <= prob

\* random.random() < self.augment_data_prob
should_augment(r, prob) == r < prob

bucket_full_gt(n, bs) == n > bs

\* bucket_size >= batch_size
bucket_full(n, bs) == n >= bs

\* DataGen._perform_augmentation: decode, augment, encode as JPEG.
perform_augmentation(im, mw, d) ==
    LET out == full_augmentation(im, mw, d)
    IN  Image(out.w, out.h, out.ops, "JPEG")

Record(im, lex, comment) == [img |-> im, lex |-> lex, comment |-> comment]
NoRecord == Record(NoImage, <<>>, 0)

\* An exception: its type, its message and the comments the message holds.
Error(type, text, comments) == [type |-> type, text |-> text, comments |-> comments]
NoError == Error("", "", {})

(***************************************************************************)
(* BucketData, the accumulator: per bucket, the pending examples in        *)
(* arrival order; last is the bucket of the latest append.                 *)
(***************************************************************************)
Example(im, w, lex, comment) == [img |-> im, word |-> w, lex |-> lex, comment |-> comment]

BucketData(specs) == [pending |-> [i \in 1..Len(specs) |-> <<>>], last |-> 0]

\* The buckets whose bounds are >= the image width and the token length.
Qualifying(specs, width, length) ==
    {i \in 1..Len(specs) : specs[i][1] >= width /\ specs[i][2] >= length}

BucketOfLargest(specs, width, length) == Max(Qualifying(specs, width, length))

BucketOf(specs, width, length) == Min(Qualifying(specs, width, length))

\* append: the accumulator after the append and the fill count of the bucket,
\* or the size-exceeded condition.
append(bd, specs, im, w, lex, comment) ==
    IF Qualifying(specs, im.w, Len(w)) = {}
    THEN [ok |-> FALSE, bd |-> bd, n |-> 0]
    ELSE LET b == BucketOf(specs, im.w, Len(w))
             items == Append(bd.pending[b], Example(im, w, lex, comment))
         IN  [ok |-> TRUE,
              bd |-> [pending |-> [bd.pending EXCEPT ![b] = items], last |-> b],
              n |-> Len(items)]

clear_keep(bd, specs) == bd

\* DataGen.clear: self.bucket_data = BucketData()
clear(bd, specs) == BucketData(specs)

PadTo(w, length) == w \o [i \in 1..(length - Len(w)) |-> 0]

Batch(b, items, length) ==
    [bucket_id |-> b,
     data |-> [i \in 1..Len(items) |-> items[i].img],
     labels |-> [i \in 1..Len(items) |-> PadTo(items[i].word, length)],
     raw |-> [i \in 1..Len(items) |-> items[i].lex],
     comments |-> [i \in 1..Len(items) |-> items[i].comment]]
NoBatch == Batch(0, <<>>, 0)

\* flush_out: the batch of the bucket just reported, and the accumulator with
\* that bucket emptied.
flush_out(bd, specs, go_shift) ==
    LET b == bd.last
    IN  [batch |-> Batch(b, bd.pending[b], specs[b][2]),
         bd |-> [bd EXCEPT !.pending[b] = <<>>]]

(***************************************************************************)
(* Inputs of the generator model.                                          *)
(***************************************************************************)
GenMaxWidth == 24
GenWidths == {10, 20, 30}
BucketSpecChoices == {<<>>, <<<<24, 4>>>>, <<<<12, 3>>, <<24, 4>>>>}
Probabilities == {0, 50}
BatchSizes == 1..MaxBatch

Rep(b, n) == [i \in 1..n |-> b]
\* Labels of "A"s, and the same with "%" (not in CHARMAP) as last symbol.
Labels ==
    {Rep(65, n) : n \in 0..MaxLexLen} \cup {Rep(65, n - 1) \o <<37>> : n \in 1..MaxLexLen}

SourceImages == {Image(w, IMAGE_HEIGHT, <<>>, "SRC") : w \in GenWidths}

\* The draws of an augmentation in the generator model: every transform at the
\* low end of its range, or every transform at the high end.
GenDraws ==
    {Draw(ResizeFactorRange[1], Rep(PadRange[1], 4),
          <<CropLowRange[1], CropHighRange[1], CropHighRange[1], CropLowRange[1]>>,
          NumLinesRange[1], 0, AngleRange[1]),
     Draw(ResizeFactorRange[2], Rep(PadRange[2], 4),
          <<CropLowRange[2], CropHighRange[2], CropHighRange[2], CropLowRange[2]>>,
          NumLinesRange[2], 99, AngleRange[2])}

AugIdle == [pc |-> 0, input |-> NoImage, max_width |-> 0, img |-> NoImage, log |-> <<>>,
            returned |-> FALSE]
FnIdle == [name |-> "", args |-> <<>>, img |-> NoImage, draws |-> <<>>, out |-> NoImage,
           done |-> FALSE]

GenInit ==
    /\ augment_data_prob \in Probabilities
    /\ max_width = GenMaxWidth
    /\ bucket_specs \in BucketSpecChoices
    /\ bucket_data = BucketData(bucket_specs)
    /\ remaining \in 0..MaxRecords
    /\ chunk = 0
    /\ count = 0
    /\ batch_size = 0
    /\ pc = "init"
    /\ rec = NoRecord
    /\ img = NoImage
    /\ word = <<>>
    /\ bucket_size = 0
    /\ batch = NoBatch
    /\ yielded = <<>>
    /\ err = NoError

(***************************************************************************)
(* DataGen.gen, one action per step of the generator.                      *)
(***************************************************************************)
\* gen(batch_size) is called and runs to the head of its loop.
Gen(bs) ==
    /\ pc = "init"
    /\ batch_size' = bs
    /\ pc' = "loop"
    /\ UNCHANGED <<aug, fn, augment_data_prob, max_width, bucket_specs, bucket_data, remaining,
                   chunk, count, rec, img, word, bucket_size, batch, yielded, err>>

\* sess.run delivers the next dataset batch: up to batch_size records.
Fetch ==
    /\ pc = "loop"
    /\ chunk = 0
    /\ remaining > 0
    /\ chunk' = IF remaining < batch_size THEN remaining ELSE batch_size
    /\ remaining' = remaining - chunk'
    /\ UNCHANGED <<aug, fn, augment_data_prob, max_width, bucket_specs, bucket_data, count,
                   batch_size, pc, rec, img, word, bucket_size, batch, yielded, err>>

\* sess.run raises OutOfRangeError: break, then self.clear().
Exhausted ==
    /\ pc = "loop"
    /\ chunk = 0
    /\ remaining = 0
    /\ bucket_data' = clear(bucket_data, bucket_specs)
    /\ pc' = "done"
    /\ UNCHANGED <<aug, fn, augment_data_prob, max_width, bucket_specs, remaining, chunk, count,
                   batch_size, rec, img, word, bucket_size, batch, yielded, err>>

\* The next (img, lex, comment) of the for loop, and the augmentation of the image
\* when random.random() < augment_data_prob.
NextRecord ==
    /\ pc = "loop"
    /\ chunk > 0
    /\ \E im \in SourceImages, lex \in Labels, r \in RandomGrid, d \in GenDraws :
          /\ rec' = Record(im, lex, count + 1)
          /\ img' = IF should_augment(r, augment_data_prob)
                    THEN perform_augmentation(im, max_width, d)
                    ELSE im
    /\ chunk' = chunk - 1
    /\ count' = count + 1
    /\ pc' = "convert"
    /\ UNCHANGED <<aug, fn, augment_data_prob, max_width, bucket_specs, bucket_data, remaining,
                   batch_size, word, bucket_size, batch, yielded, err>>

\* word = self.convert_lex(lex), with the except IndexError clause around it.
Convert ==
    /\ pc = "convert"
    /\ LET res == convert_lex(rec.lex, bucket_specs)
       IN  IF res.ok
           THEN /\ word' = res.word
                /\ pc' = "append"
                /\ err' = err
           ELSE /\ word' = word
                /\ pc' = "raised"
                /\ err' = IF res.exc = "IndexError"
                          THEN Error("ValueError", "Failed to convert lexicon for", {rec.comment})
                          ELSE IF res.exc = "ValueError"
                          THEN Error("ValueError", "is not in list", {})
                          ELSE Error(res.exc, "", {})
    /\ UNCHANGED <<aug, fn, augment_data_prob, max_width, bucket_specs, bucket_data, remaining,
                   chunk, count, batch_size, rec, img, bucket_size, batch, yielded>>

\* bucket_size = self.bucket_data.append(img, word, lex, comment)
AppendRecord ==
    /\ pc = "append"
    /\ LET res == append(bucket_data, bucket_specs, img, word, rec.lex, rec.comment)
       IN  IF res.ok
           THEN /\ bucket_data' = res.bd
                /\ bucket_size' = res.n
                /\ pc' = IF bucket_full(res.n, batch_size) THEN "flush" ELSE "loop"
                /\ err' = err
           ELSE /\ bucket_data' = bucket_data
                /\ bucket_size' = bucket_size
                /\ pc' = "raised"
                /\ err' = Error("SizeExceeded", "", {})
    /\ UNCHANGED <<aug, fn, augment_data_prob, max_width, bucket_specs, remaining, chunk, count,
                   batch_size, rec, img, word, batch, yielded>>

\* bucket = self.bucket_data.flush_out(self.bucket_specs, go_shift=1); yield bucket
Flush ==
    /\ pc = "flush"
    /\ LET res == flush_out(bucket_data, bucket_specs, 1)
       IN  /\ bucket_data' = res.bd
           /\ batch' = res.batch
           /\ yielded' = Append(yielded, res.batch.comments)
    /\ pc' = "yielded"
    /\ UNCHANGED <<aug, fn, augment_data_prob, max_width, bucket_specs, remaining, chunk, count,
                   batch_size, rec, img, word, bucket_size, err>>

\* The caller asks for the next batch: the generator resumes after the yield.
Resume ==
    /\ pc = "yielded"
    /\ batch' = NoBatch
    /\ pc' = "loop"
    /\ UNCHANGED <<aug, fn, augment_data_prob, max_width, bucket_specs, bucket_data, remaining,
                   chunk, count, batch_size, rec, img, word, bucket_size, yielded, err>>

Init ==
    /\ GenInit
    /\ aug = AugIdle
    /\ fn = FnIdle

Next ==
    \/ \E bs \in BatchSizes : Gen(bs)
    \/ Fetch
    \/ Exhausted
    \/ NextRecord
    \/ Convert
    \/ AppendRecord
    \/ Flush
    \/ Resume

Spec == Init /\ [][Next]_vars

(***************************************************************************)
(* A call of full_augmentation(img, max_width), statement by statement.    *)
(* aug.pc is the statement to run next, aug.img the local img, aug.log the *)
(* transforms called so far with the image each received and returned.    *)
(***************************************************************************)
AugWidths == (MaxImgW - 2)..MaxImgW
AugHeights == (MaxImgH - 1)..MaxImgH
AugMaxWidths == {MaxImgW - 2, MaxImgW + 2}

GenIdle ==
    /\ augment_data_prob = 0
    /\ max_width = GenMaxWidth
    /\ bucket_specs = <<>>
    /\ bucket_data = BucketData(<<>>)
    /\ remaining = 0
    /\ chunk = 0
    /\ count = 0
    /\ batch_size = 0
    /\ pc = "init"
    /\ rec = NoRecord
    /\ img = NoImage
    /\ word = <<>>
    /\ bucket_size = 0
    /\ batch = NoBatch
    /\ yielded = <<>>
    /\ err = NoError

AugInit ==
    /\ GenIdle
    /\ fn = FnIdle
    /\ \E w \in AugWidths, h \in AugHeights, mw \in AugMaxWidths :
          aug = [pc |-> 1, input |-> Image(w, h, <<>>, "SRC"), max_width |-> mw,
                 img |-> Image(w, h, <<>>, "SRC"), log |-> <<>>, returned |-> FALSE]

\* The statement of a stage reads the local img and assigns the result to it.
AugStep(stage, d) ==
    LET out == ApplyStage(stage, aug.img, aug.max_width, d)
    IN  aug' = [aug EXCEPT !.img = out,
                           !.log = Append(@, [stage |-> stage, in |-> aug.img, out |-> out]),
                           !.pc = @ + 1]

AtStage(stage) == aug.pc \in 1..Len(AugStages) /\ AugStages[aug.pc] = stage

\* img = random_resize(img, max_width=max_width)
Resize ==
    /\ AtStage("Resize")
    /\ \E d \in StageDraws("Resize") : AugStep("Resize", d)
    /\ UNCHANGED <<genVars, fn>>

\* img = modify_sharpness(img)
Sharpness ==
    /\ AtStage("Sharpness")
    /\ \E d \in StageDraws("Sharpness") : AugStep("Sharpness", d)
    /\ UNCHANGED <<genVars, fn>>

\* img = modify_contrast(img)
Contrast ==
    /\ AtStage("Contrast")
    /\ \E d \in StageDraws("Contrast") : AugStep("Contrast", d)
    /\ UNCHANGED <<genVars, fn>>

\* img = modify_brightness(img)
Brightness ==
    /\ AtStage("Brightness")
    /\ \E d \in StageDraws("Brightness") : AugStep("Brightness", d)
    /\ UNCHANGED <<genVars, fn>>

\* img = add_random_padding(img)
Padding ==
    /\ AtStage("Padding")
    /\ \E d \in StageDraws("Padding") : AugStep("Padding", d)
    /\ UNCHANGED <<genVars, fn>>

\* img = crop_image(img)
Crop ==
    /\ AtStage("Crop")
    /\ \E d \in StageDraws("Crop") : AugStep("Crop", d)
    /\ UNCHANGED <<genVars, fn>>

\* img = add_random_lines(img)
RandomLines ==
    /\ AtStage("RandomLines")
    /\ \E d \in StageDraws("RandomLines") :
          /\ add_random_lines_draws(aug.img, d.probability)
          /\ AugStep("RandomLines", d)
    /\ UNCHANGED <<genVars, fn>>

\* img = random_rotation(img)
Rotation ==
    /\ AtStage("Rotation")
    /\ \E d \in StageDraws("Rotation") : AugStep("Rotation", d)
    /\ UNCHANGED <<genVars, fn>>

\* return img
AugReturn ==
    /\ aug.pc = Len(AugStages) + 1
    /\ ~aug.returned
    /\ aug' = [aug EXCEPT !.returned = TRUE]
    /\ UNCHANGED <<genVars, fn>>

AugNext ==
    \/ Resize
    \/ Sharpness
    \/ Contrast
    \/ Brightness
    \/ Padding
    \/ Crop
    \/ RandomLines
    \/ Rotation
    \/ AugReturn

SpecAug == AugInit /\ [][AugNext]_vars

(***************************************************************************)
(* A call of one transform with caller-supplied arguments: fn holds the    *)
(* image, the arguments, the values drawn and the image returned.          *)
(***************************************************************************)
FnWidths == 2..MaxImgW
FnHeights == 2..MaxImgH
FnMaxWidths == 1..(MaxImgW + 1)
PadRanges == {r \in (0..MaxPad) \X (0..MaxPad) : r[1] <= r[2]}
PadImages == {Image(w, h, <<>>, "SRC") : w \in {1, MaxImgW}, h \in {1, MaxImgH}}

FnInit ==
    /\ GenIdle
    /\ aug = AugIdle
    /\ \/ \E w \in FnWidths, h \in FnHeights, mw \in FnMaxWidths :
             fn = [name |-> "random_resize", args |-> <<mw>>,
                   img |-> Image(w, h, <<>>, "SRC"), draws |-> <<>>, out |-> NoImage,
                   done |-> FALSE]
       \/ \E im \in PadImages, rs \in Quad(PadRanges) :
             fn = [name |-> "add_random_padding", args |-> rs,
                   img |-> im, draws |-> <<>>, out |-> NoImage, done |-> FALSE]

\* random_resize(img, max_width) with the default factor_range
CallRandomResize ==
    /\ fn.name = "random_resize"
    /\ ~fn.done
    /\ \E factor \in RandInt(ResizeFactorRange) :
          fn' = [fn EXCEPT !.draws = <<factor>>,
                           !.out = random_resize(fn.img, fn.args[1], factor),
                           !.done = TRUE]
    /\ UNCHANGED <<genVars, aug>>

\* add_random_padding(img, pad_top_range, pad_right_range, pad_bottom_range, pad_left_range)
CallAddRandomPadding ==
    /\ fn.name = "add_random_padding"
    /\ ~fn.done
    /\ \E delta_top \in RandInt(fn.args[1]), delta_right \in RandInt(fn.args[2]),
          delta_bottom \in RandInt(fn.args[3]), delta_left \in RandInt(fn.args[4]) :
          fn' = [fn EXCEPT !.draws = <<delta_top, delta_right, delta_bottom, delta_left>>,
                           !.out = add_random_padding(fn.img, delta_top, delta_right,
                                                      delta_bottom, delta_left),
                           !.done = TRUE]
    /\ UNCHANGED <<genVars, aug>>

FnNext ==
    \/ CallRandomResize
    \/ CallAddRandomPadding

SpecFn == FnInit /\ [][FnNext]_vars

(***************************************************************************)
(* Properties.                                                             *)
(***************************************************************************)
Buckets == 1..Len(bucket_specs)
Pending(b) == bucket_data.pending[b]
StoredComments ==
    UNION {{Pending(b)[i].comment : i \in 1..Len(Pending(b))} : b \in Buckets}
YieldedComments ==
    UNION {{yielded[k][i] : i \in 1..Len(yielded[k])} : k \in 1..Len(yielded)}
YieldedExamples == IF yielded = <<>> THEN 0 ELSE Len(yielded) * batch_size

\* C1: an append that fills a bucket to batch_size is followed by the flush of that
\* bucket and the yield of its batch before another record is read: a bucket holds
\* batch_size pending examples only at the flush, no bucket holds batch_size or more
\* anywhere else, and every yielded batch is the flushed bucket and holds exactly
\* batch_size examples.
C1_FlushWhenFull ==
    /\ pc \notin {"init", "flush"} => \A b \in Buckets : Len(Pending(b)) < batch_size
    /\ pc = "flush" =>
          /\ bucket_size = batch_size
          /\ Len(Pending(bucket_data.last)) = batch_size
          /\ \A b \in Buckets \ {bucket_data.last} : Len(Pending(b)) < batch_size
    /\ pc = "yielded" =>
          /\ Len(batch.data) = batch_size
          /\ Len(batch.comments) = batch_size
          /\ batch.bucket_id = bucket_data.last
          /\ Pending(batch.bucket_id) = <<>>
          /\ batch.comments[batch_size] = rec.comment
    /\ \A k \in 1..Len(yielded) : Len(yielded[k]) = batch_size

C1_Witness ==
    /\ pc = "yielded"
    /\ batch_size = 2
    /\ Len(batch.data) = 2
    /\ \E b \in Buckets : Len(Pending(b)) = 1

\* C2: when the record source is exhausted the generator yields nothing more,
\* leaves every bucket empty and stops; the examples pending at that moment are in
\* no yielded batch.
C2_Exhaustion ==
    /\ [](pc = "done" =>
            /\ \A b \in Buckets : Pending(b) = <<>>
            /\ batch = NoBatch
            /\ remaining = 0
            /\ ~ENABLED Next)
    /\ [][(pc = "loop" /\ chunk = 0 /\ remaining = 0) =>
            /\ pc' = "done"
            /\ yielded' = yielded
            /\ StoredComments \cap YieldedComments' = {}]_vars

C2_Witness ==
    /\ pc = "done"
    /\ Len(yielded) = 1
    /\ batch_size = 2
    /\ count = 3

HasMiss(lex) == \E i \in 1..Len(lex) : ~InList(CHARMAP, decode(lex)[i])
TooLong(lex) == bucket_specs /= <<>> /\ ~(Len(lex) < bucket_specs[Len(bucket_specs)][2])
Converted == rec /= NoRecord /\ pc /= "convert"

\* C3: the conversion of a record whose label has a symbol that is not in the
\* charmap fails with an error that names the comment of the record.
C3_MissNamesComment ==
    (Converted /\ HasMiss(rec.lex)) => (pc = "raised" /\ rec.comment \in err.comments)

\* C4: convert_lex succeeds only if the token sequence, GO_ID and EOS_ID counted,
\* is strictly shorter than the label-length bound of the last bucket spec, and
\* fails for every label whose token sequence is at least that long.
C4_TokenLengthBound ==
    (Converted /\ bucket_specs /= <<>>) =>
        LET bound == bucket_specs[Len(bucket_specs)][2]
        IN  /\ pc /= "raised" => Len(word) < bound
            /\ Len(rec.lex) + 2 >= bound => pc = "raised"

IsSmallestQualifying(b, width, length) ==
    /\ bucket_specs[b][1] >= width
    /\ bucket_specs[b][2] >= length
    /\ \A j \in 1..(b - 1) : ~(bucket_specs[j][1] >= width /\ bucket_specs[j][2] >= length)
NoneQualifies(width, length) ==
    \A j \in Buckets : ~(bucket_specs[j][1] >= width /\ bucket_specs[j][2] >= length)

\* C5: every stored example is in the first bucket, in the order of the specs, whose
\* width bound and label-length bound are both >= its image width and token length;
\* an example no bucket qualifies for fails the append with the size-exceeded
\* condition and is stored nowhere.
C5_SmallestBucket ==
    /\ \A b \in Buckets : \A i \in 1..Len(Pending(b)) :
          IsSmallestQualifying(b, Pending(b)[i].img.w, Len(Pending(b)[i].word))
    /\ pc = "yielded" => \A i \in 1..Len(batch.data) :
          IsSmallestQualifying(batch.bucket_id, batch.data[i].w, Len(batch.raw[i]) + 2)
    /\ (pc \in {"loop", "flush"} /\ rec /= NoRecord) =>
          /\ rec.comment \in StoredComments \cup YieldedComments
          /\ ~NoneQualifies(img.w, Len(word))
    /\ (Converted /\ pc /= "append" /\ err.type \notin {"ValueError", "AssertionError"}
          /\ NoneQualifies(img.w, Len(word))) =>
          /\ pc = "raised"
          /\ err.type = "SizeExceeded"
          /\ rec.comment \notin StoredComments \cup YieldedComments

C5_Witness ==
    /\ Len(bucket_specs) = 2
    /\ Len(Pending(1)) = 1
    /\ Len(Pending(2)) = 1
    /\ Pending(2)[1].img.w <= bucket_specs[1][1]
    /\ Pending(1)[1].comment > Pending(2)[1].comment

\* C6: with augment_data_prob = 0.0 no record is augmented, whatever random.random()
\* returns: the image handed to append, and every image stored or yielded, is the
\* image read from the source.
C6_NoAugmentation ==
    augment_data_prob = 0 =>
        /\ rec /= NoRecord => img = rec.img
        /\ img.ops = <<>>
        /\ \A b \in Buckets : \A i \in 1..Len(Pending(b)) :
              Pending(b)[i].img \in SourceImages
        /\ \A i \in 1..Len(batch.data) : batch.data[i] \in SourceImages

C6_Witness ==
    /\ augment_data_prob = 0
    /\ pc = "yielded"
    /\ count = 3
    /\ batch.data[1] \in SourceImages

ExpectedStages ==
    <<"Resize", "Sharpness", "Contrast", "Brightness",
      "Padding", "Crop", "RandomLines", "Rotation">>

C8_FailedConversion ==
    /\ []((Converted /\ (bucket_specs = <<>> \/ HasMiss(rec.lex) \/ TooLong(rec.lex))) =>
            /\ pc = "raised"
            /\ err /= NoError
            /\ err.type /= "SizeExceeded"
            /\ rec.comment \notin StoredComments \cup YieldedComments
            /\ ~ENABLED Next)
    /\ [][(pc' = "convert" \/ pc = "convert") =>
            (bucket_data' = bucket_data /\ yielded' = yielded)]_vars

C8_Witness ==
    /\ pc = "raised"
    /\ HasMiss(rec.lex)
    /\ ~TooLong(rec.lex)
    /\ count = 3
    /\ Cardinality(StoredComments) = 2

PaddingDone == fn.name = "add_random_padding" /\ fn.done

\* C9: add_random_padding grows the canvas by each delta on its own side: the
\* height by delta_top + delta_bottom, the width by delta_left + delta_right.
C9_PaddingSides ==
    PaddingDone =>
        /\ fn.out.h = fn.img.h + fn.draws[1] + fn.draws[3]
        /\ fn.out.w = fn.img.w + fn.draws[4] + fn.draws[2]
        /\ fn.out.h >= fn.img.h
        /\ fn.out.w >= fn.img.w

ResizeDone == fn.name = "random_resize" /\ fn.done

\* C10 as stated: the size is (round(w*f), round(h*f)) when round(w*f) <= max_width,
\* else the width is max_width; the width never exceeds max_width.
C10_RoundedSize ==
    ResizeDone =>
        LET rw == NpRound(fn.img.w * fn.draws[1], 100)
            rh == NpRound(fn.img.h * fn.draws[1], 100)
        IN  /\ rw <= fn.args[1] => (fn.out.w = rw /\ fn.out.h = rh)
            /\ rw > fn.args[1] => fn.out.w = fn.args[1]
            /\ fn.out.w <= fn.args[1]

\* x is n/d truncated
IsTruncation(x, n, d) == x * d <= n /\ n < (x + 1) * d

\* C10 amended: the size is (int(w*f), int(h*f)), truncated, when int(w*f) <=
\* max_width; else the width is max_width and the height int(max_width / width *
\* height) of the truncated size; the width never exceeds max_width.
C10_TruncatedSize ==
    ResizeDone =>
        \E tw \in 0..(2 * fn.img.w), th \in 0..(2 * fn.img.h) :
            /\ IsTruncation(tw, fn.img.w * fn.draws[1], 100)
            /\ IsTruncation(th, fn.img.h * fn.draws[1], 100)
            /\ tw <= fn.args[1] => (fn.out.w = tw /\ fn.out.h = th)
            /\ tw > fn.args[1] =>
                  (fn.out.w = fn.args[1] /\ IsTruncation(fn.out.h, fn.args[1] * th, tw))
            /\ fn.out.w <= fn.args[1]

C10_Witness ==
    /\ ResizeDone
    /\ fn.img.w = 12
    /\ fn.draws[1] = 109
    /\ fn.args[1] = 10
    /\ fn.out.w = 10
    /\ fn.out.h < fn.img.h

====
